---- MODULE Spec2Model ----
(***************************************************************************)
(* Model of the hedging ladder script (src/main.py): the sizing            *)
(* arithmetic, the planning and submission flow of main(), the execution   *)
(* gateway (MetaTrader terminal) as environment, and the background        *)
(* monitor thread started by start_order_monitoring.                       *)
(*                                                                         *)
(* Numbers.  The program computes in binary floating point.  The model     *)
(* computes in exact rationals <<n, d>> (d > 0, lowest terms); Python's    *)
(* round(x, k) is modelled as rounding to the nearest multiple of 10^-k    *)
(* with ties going to the even multiple.                                   *)
(***************************************************************************)
EXTENDS Integers, Sequences, FiniteSets, TLC

VARIABLES
    cfg,          \* settings.py values and the terminal's symbol data
    pc,           \* position of main()
    plan,         \* values main() computed before the confirmation prompt
    sent,         \* order_send requests issued by main(), in order
    rejected,     \* indexes of sent whose retcode was not TRADE_RETCODE_DONE
    skipped,      \* market orders place_market_order returned early for
    positions,    \* terminal: open positions (ids)
    orders,       \* terminal: pending orders (ids)
    anchorClosed, \* ladders whose market position was open and has been closed
    monPc,        \* position of the monitor thread
    posSnap,      \* monitor: result of positions_get of this poll
    ordSnap,      \* monitor: result of orders_get of this poll
    attempted,    \* monitor: orders a cancel request was sent for in this poll
    refused,      \* monitor: attempted cancels whose retcode was not DONE
    prevView,     \* per ladder, what the previous completed poll showed
    calc          \* last direct call of a sizing function, with its result

vars == <<cfg, pc, plan, sent, rejected, skipped, positions, orders, anchorClosed,
          monPc, posSnap, ordSnap, attempted, refused, prevView, calc>>

----------------------------------------------------------------------------
(* Exact rational arithmetic standing in for Python floats.                *)

Abs(x) == IF x < 0 THEN -x ELSE x

RECURSIVE GCD(_, _)
GCD(a, b) == IF b = 0 THEN a ELSE GCD(b, a % b)

\* the rational n/d in lowest terms with a positive denominator (d # 0)
Q(n, d) ==
    LET g == GCD(Abs(n), Abs(d))
        s == IF d < 0 THEN -1 ELSE 1
    IN  <<s * (n \div g), s * (d \div g)>>

I(n) == <<n, 1>>

RAdd(x, y) ==
    LET g == GCD(x[2], y[2])
    IN  Q(x[1] * (y[2] \div g) + y[1] * (x[2] \div g), (x[2] \div g) * y[2])
RNeg(x) == <<-x[1], x[2]>>
RSub(x, y) == RAdd(x, RNeg(y))
RMul(x, y) ==
    LET a == Q(x[1], y[2])
        b == Q(y[1], x[2])
    IN  <<a[1] * b[1], a[2] * b[2]>>
RIsZero(x) == x[1] = 0
\* x / y for y # 0; callers raise ZeroDivisionError before dividing by zero
RDiv(x, y) == RMul(x, Q(y[2], y[1]))
RLe(x, y) == RSub(x, y)[1] <= 0
RLt(x, y) == RSub(x, y)[1] < 0
RAbs(x) == <<Abs(x[1]), x[2]>>
RMax(x, y) == IF RLe(x, y) THEN y ELSE x

\* nearest integer to x * scale, ties to even
RoundTo(x, scale) ==
    LET a  == x[1] \div x[2]
        b  == x[1] % x[2]
        q  == a * scale + (b * scale) \div x[2]
        r  == (b * scale) % x[2]
    IN  IF 2 * r < x[2] THEN q
        ELSE IF 2 * r > x[2] THEN q + 1
        ELSE IF q % 2 = 0 THEN q ELSE q + 1

RECURSIVE Pow10(_)
Pow10(k) == IF k = 0 THEN 1 ELSE 10 * Pow10(k - 1)

\* Python round(x, digits)
Round(x, digits) == Q(RoundTo(x, Pow10(digits)), Pow10(digits))

RECURSIVE RSumSeq(_)
RSumSeq(s) == IF s = <<>> THEN I(0) ELSE RAdd(s[1], RSumSeq(Tail(s)))

----------------------------------------------------------------------------
(* Sizing functions of src/main.py.                                        *)

calculate_loss_in_dollars(initial_stop_percent, account_size) ==
    RMul(RDiv(initial_stop_percent, I(100)), account_size)

\* callers check sl_distance * pip_value # 0 first (ZeroDivisionError otherwise)
calculate_initial_lot_size(loss_in_dollars, sl_distance, pip_value) ==
    Round(RDiv(loss_in_dollars, RMul(sl_distance, pip_value)), 2)

calculate_gain_in_dollars(lot_size, pip_gain, pip_value) ==
    Round(RMul(RMul(lot_size, pip_gain), pip_value), 2)

\* pip gains of the initial order and of the three stop orders
calculate_pip_gain(number_of_pips, spread_in_pips, levels) ==
    [i \in 0..Len(levels) |->
        IF i = 0 THEN Round(RSub(number_of_pips, spread_in_pips), 2)
        ELSE Round(RSub(RMul(number_of_pips,
                             RSub(I(1), RDiv(levels[i], I(100)))),
                        spread_in_pips), 2)]

\* the loop of calculate_stepped_lot_sizes_exact, left rungs still to size
RECURSIVE ExactLoop(_, _, _, _, _, _)
ExactLoop(lot_sizes, current_total, total_goal, tp_distance, pip_value, num_orders) ==
    IF Len(lot_sizes) >= num_orders THEN lot_sizes
    ELSE LET remaining_goal == RSub(total_goal, current_total)
             next_lot_size  ==
                 RDiv(remaining_goal,
                      RMul(RMul(I(num_orders - Len(lot_sizes)), tp_distance),
                           pip_value))
         IN  ExactLoop(Append(lot_sizes, Round(next_lot_size, 2)),
                       RAdd(current_total,
                            RMul(RMul(next_lot_size, tp_distance), pip_value)),
                       total_goal, tp_distance, pip_value, num_orders)

Contributions(lot_sizes, tp_distance, pip_value) ==
    [i \in 1..Len(lot_sizes) |-> RMul(RMul(lot_sizes[i], tp_distance), pip_value)]

verify_total_contribution(lot_sizes, tp_distance, pip_value) ==
    RSumSeq(Contributions(lot_sizes, tp_distance, pip_value))

\* result of calculate_stepped_lot_sizes_exact: the list, or the exception
calculate_stepped_lot_sizes_exact(initial_lot_size, total_goal, tp_distance, pip_value, num_orders) ==
    IF num_orders >= 1 /\ RIsZero(RMul(tp_distance, pip_value))
    THEN [err |-> "ZeroDivisionError", lots |-> <<>>]
    ELSE LET looped == ExactLoop(<<initial_lot_size>>,
                                 RMul(RMul(initial_lot_size, tp_distance), pip_value),
                                 total_goal, tp_distance, pip_value, num_orders)
             final_adjustment ==
                 RDiv(RSub(total_goal,
                           verify_total_contribution(looped, tp_distance, pip_value)),
                      RMul(tp_distance, pip_value))
             n == Len(looped)
         IN  [err  |-> "none",
              lots |-> [looped EXCEPT ![n] = RAdd(@, Round(final_adjustment, 2))]]

\* the loop of calculate_stepped_lot_sizes: the floor is the last list entry
RECURSIVE SteppedLoop(_, _, _, _, _, _)
SteppedLoop(lot_sizes, current_contribution, total_goal, tp_distance, pip_value, num_orders) ==
    IF Len(lot_sizes) >= num_orders THEN lot_sizes
    ELSE LET remaining_goal == RSub(total_goal, current_contribution)
             remaining_orders == num_orders - Len(lot_sizes)
             next_lot_size ==
                 RMax(RDiv(remaining_goal,
                           RMul(RMul(I(remaining_orders), tp_distance), pip_value)),
                      lot_sizes[Len(lot_sizes)])
         IN  SteppedLoop(Append(lot_sizes, Round(next_lot_size, 2)),
                         RAdd(current_contribution,
                              RMul(RMul(next_lot_size, tp_distance), pip_value)),
                         total_goal, tp_distance, pip_value, num_orders)

\* result of calculate_stepped_lot_sizes: the list, or the exception
calculate_stepped_lot_sizes(initial_lot_size, total_goal, tp_distance, pip_value, num_orders) ==
    IF RIsZero(RMul(tp_distance, pip_value))
    THEN [err |-> "ZeroDivisionError", lots |-> <<>>]
    ELSE [err  |-> "none",
          lots |-> SteppedLoop(<<initial_lot_size>>,
                               RMul(RMul(initial_lot_size, tp_distance), pip_value),
                               total_goal, tp_distance, pip_value, num_orders)]

\* the loop of calculate_be_levels
RECURSIVE BELoop(_, _, _, _, _, _)
BELoop(be_levels, cumulative_profit, initial_lot_size, lot_sizes, tp_distance, pip_value) ==
    IF lot_sizes = <<>> THEN [err |-> "none", levels |-> be_levels]
    ELSE LET cum == RAdd(cumulative_profit,
                         RMul(RMul(initial_lot_size, tp_distance), pip_value))
             den == RMul(lot_sizes[1], pip_value)
         IN  IF RIsZero(den) THEN [err |-> "ZeroDivisionError", levels |-> <<>>]
             ELSE BELoop(Append(be_levels, Round(RDiv(cum, den), 2)), cum,
                         initial_lot_size, Tail(lot_sizes), tp_distance, pip_value)

\* break-even levels from one order's profit instead of the cumulative profit
calculate_be_levels_flat(initial_lot_size, lot_sizes, tp_distance, pip_value) ==
    [err    |-> "none",
     levels |-> [i \in 1..Len(lot_sizes) |->
                    Round(RDiv(RMul(RMul(initial_lot_size, tp_distance), pip_value),
                               RMul(lot_sizes[i], pip_value)), 2)]]

calculate_be_levels(initial_lot_size, lot_sizes, tp_distance, pip_value) ==
    BELoop(<<>>, I(0), initial_lot_size, lot_sizes, tp_distance, pip_value)

----------------------------------------------------------------------------
(* Planning part of main(): everything before the confirmation prompt.     *)

MagicBuy == 1001
MagicSell == 1002
OtherMagic == 0
Ladders == {MagicBuy, MagicSell}
ActionOf(magic) == IF magic = MagicBuy THEN "BUY" ELSE "SELL"

get_pip_value(c) == RMul(c.contract_size, c.point)
get_spread_in_pips(c) == RMul(c.spread, c.point)

\* price the action is quoted at: ask for BUY, bid for SELL
CurrentPrice(c, action) == IF action = "BUY" THEN c.ask ELSE c.bid

\* raw_levels of calculate_stop_levels
RawLevel(c, action, level) ==
    LET off == RMul(RMul(RDiv(level, I(100)), c.number_of_pips), c.point)
    IN  IF action = "BUY" THEN RAdd(CurrentPrice(c, action), off)
        ELSE RSub(CurrentPrice(c, action), off)

\* a validation that keeps every raw level
LevelValidLax(c, action, raw) == TRUE

\* the test of calculate_stop_levels that keeps a raw level
LevelValid(c, action, raw) ==
    RLe(RMul(c.stops_level, c.point), RAbs(RSub(raw, CurrentPrice(c, action))))

RECURSIVE ValidLoop(_, _, _, _)
ValidLoop(c, action, levels, valid_levels) ==
    IF levels = <<>> THEN valid_levels
    ELSE LET raw == RawLevel(c, action, levels[1])
         IN  ValidLoop(c, action, Tail(levels),
                       IF LevelValid(c, action, raw)
                       THEN Append(valid_levels, Round(raw, c.digits))
                       ELSE valid_levels)

calculate_stop_levels(c, action, top_up_levels) ==
    ValidLoop(c, action, top_up_levels, <<>>)

\* main() up to the prompt: the computed values, or the exception raised
PlanOf(c) ==
    LET pip_value      == get_pip_value(c)
        spread_in_pips == get_spread_in_pips(c)
        total_gain     == RDiv(RMul(c.account_size, c.target_gain_percent), I(100))
        loss           == calculate_loss_in_dollars(c.initial_stop_percent, c.account_size)
        Fail(e)        == [err |-> e]
    IN
    IF RIsZero(RMul(c.initial_stop_level, pip_value)) THEN Fail("ZeroDivisionError")
    ELSE
    LET initial_lot_size == calculate_initial_lot_size(loss, c.initial_stop_level, pip_value)
        pip_gains  == calculate_pip_gain(c.number_of_pips, spread_in_pips, c.levels)
        gain0      == calculate_gain_in_dollars(initial_lot_size, pip_gains[0], pip_value)
        level_sum  == RSumSeq(c.levels)
    IN
    IF RIsZero(level_sum) THEN Fail("ZeroDivisionError")
    ELSE
    LET gain(i) == RDiv(RMul(RSub(total_gain, gain0), c.levels[i]), level_sum)
    IN
    IF \E i \in 1..Len(c.levels) : RIsZero(RMul(pip_gains[i], pip_value))
    THEN Fail("ZeroDivisionError")
    ELSE
    LET lots == [i \in 1..Len(c.levels) |->
                    RDiv(gain(i), RMul(pip_gains[i], pip_value))]
        lot_sizes == <<initial_lot_size>> \o lots
        be == calculate_be_levels(initial_lot_size, lots, c.number_of_pips, pip_value)
    IN
    IF be.err # "none" THEN Fail(be.err)
    ELSE [err              |-> "none",
          pip_value        |-> pip_value,
          total_gain       |-> total_gain,
          pip_gains        |-> pip_gains,
          gain_initial     |-> gain0,
          lot_sizes        |-> lot_sizes,
          be_levels        |-> be.levels,
          buy_tp_price     |-> RAdd(c.ask, RMul(c.number_of_pips, c.point)),
          sell_tp_price    |-> RSub(c.ask, RMul(c.number_of_pips, c.point)),
          stop_levels_buy  |-> calculate_stop_levels(c, "BUY", c.levels),
          stop_levels_sell |-> calculate_stop_levels(c, "SELL", c.levels)]

StopLevels(p, magic) ==
    IF magic = MagicBuy THEN p.stop_levels_buy ELSE p.stop_levels_sell
TpPrice(p, magic) ==
    IF magic = MagicBuy THEN p.buy_tp_price ELSE p.sell_tp_price

Min(a, b) == IF a <= b THEN a ELSE b

\* number of iterations of zip(stop_levels, lot_sizes, be_levels)
ZipLen(p, magic) ==
    Min(Len(StopLevels(p, magic)), Min(Len(p.lot_sizes) - 1, Len(p.be_levels)))

\* request of place_market_order
MarketRequest(c, p, magic) ==
    LET action == ActionOf(magic)
        price  == CurrentPrice(c, action)
        tpd    == RMul(c.number_of_pips, c.point)
        sld    == RMul(c.initial_stop_level, c.point)
    IN  [kind   |-> "market", magic |-> magic, idx |-> 0,
         volume |-> p.lot_sizes[1],
         price  |-> price,
         tp     |-> IF action = "BUY" THEN RAdd(price, tpd) ELSE RSub(price, tpd),
         sl     |-> IF action = "BUY" THEN RSub(price, sld) ELSE RAdd(price, sld)]

\* request of the k-th iteration of place_stop_orders
StopRequest(c, p, magic, k) ==
    LET action   == ActionOf(magic)
        price    == CurrentPrice(c, action)
        be_off   == RMul(p.be_levels[k], c.point)
    IN  [kind   |-> "stop", magic |-> magic, idx |-> k,
         volume |-> Round(p.lot_sizes[k + 1], 2),
         price  |-> StopLevels(p, magic)[k],
         tp     |-> TpPrice(p, magic),
         sl     |-> IF action = "BUY" THEN RSub(price, be_off) ELSE RAdd(price, be_off)]

----------------------------------------------------------------------------
(* Configurations: settings.py and the symbol data the terminal reports.   *)

BaseConfig ==
    [account_size         |-> I(10000),
     target_gain_percent  |-> I(20),
     number_of_pips       |-> I(1500),
     initial_stop_level   |-> I(300),
     initial_stop_percent |-> I(1),
     levels               |-> <<I(30), I(60), I(90)>>,
     contract_size        |-> I(100),
     point                |-> Q(1, 100),
     spread               |-> I(20),
     stops_level          |-> I(500),
     digits               |-> 2,
     bid                  |-> I(2000),
     ask                  |-> Q(200020, 100)]

\* the configurations main() is run with; each leaves at most two of the
\* three levels valid per direction, which bounds the terminal's order book
Configs ==
    { BaseConfig,                                            \* first level too close
      [BaseConfig EXCEPT !.stops_level = I(1000)],            \* two levels too close
      [BaseConfig EXCEPT !.spread = I(20000),
                         !.ask = I(2200),
                         !.stops_level = I(1000)],            \* pip gain of rung 3 < 0
      [BaseConfig EXCEPT !.initial_stop_level = I(-300),
                         !.stops_level = I(1400)],            \* negative stop distance
      [BaseConfig EXCEPT !.initial_stop_level = I(0)],        \* zero stop distance
      [BaseConfig EXCEPT !.levels = <<I(30), I(60), I(100)>>, \* pip gain of rung 3 = 0
                         !.spread = I(0), !.ask = I(2000)] }

----------------------------------------------------------------------------
(* State.                                                                  *)

NoSnap == [ok |-> FALSE, v |-> {}]
NoView == [l \in Ladders |-> "NONE"]
NoCalc == [fn |-> "none"]

Magic(o) == o[1]

Init ==
    /\ cfg \in Configs
    /\ pc = "start"
    /\ plan = [err |-> "unset"]
    /\ sent = <<>>
    /\ rejected = {}
    /\ skipped = {}
    /\ positions = {}
    /\ orders = {<<OtherMagic, 1>>}
    /\ anchorClosed = {}
    /\ monPc = "off"
    /\ posSnap = NoSnap
    /\ ordSnap = NoSnap
    /\ attempted = {}
    /\ refused = {}
    /\ prevView = NoView
    /\ calc = NoCalc

mainVars == <<cfg, pc, plan, sent, rejected, skipped>>
worldVars == <<positions, orders, anchorClosed>>
monVars == <<monPc, posSnap, ordSnap, attempted, refused, prevView>>

----------------------------------------------------------------------------
(* main(): planning, confirmation, submission, start of the monitor.       *)

\* main() lines 518-647; terminal_ok = initialize, symbol_info and
\* symbol_info_tick all answered
Plan ==
    /\ pc = "start"
    /\ \E terminal_ok \in BOOLEAN :
          IF ~terminal_ok
          THEN /\ pc' = "raised_plan"
               /\ plan' = [err |-> "RuntimeError"]
          ELSE LET p == PlanOf(cfg)
               IN  /\ plan' = p
                   /\ pc' = IF p.err = "none" THEN "confirm" ELSE "raised_plan"
    /\ UNCHANGED <<cfg, sent, rejected, skipped, worldVars, monVars, calc>>

\* the prompt of lines 650-651 and 664-665
Confirm ==
    /\ pc = "confirm"
    /\ \E answer \in {"Y", "N"} :
          pc' = IF answer = "Y" THEN "mktBuy" ELSE "cancelled"
    /\ UNCHANGED <<cfg, plan, sent, rejected, skipped, worldVars, monVars, calc>>

\* place_market_order as called on lines 655 and 656; its result is ignored
PlaceMarketOrder(magic) ==
    /\ pc = (IF magic = MagicBuy THEN "mktBuy" ELSE "mktSell")
    /\ pc' = (IF magic = MagicBuy THEN "mktSell" ELSE "stopsBuy")
    /\ \E outcome \in {"unavailable", "done", "rejected"} :
          \* "unavailable": symbol_select or symbol_info_tick failed, return None
          /\ sent' = IF outcome = "unavailable" THEN sent
                     ELSE Append(sent, MarketRequest(cfg, plan, magic))
          /\ rejected' = IF outcome = "rejected"
                         THEN rejected \cup {Len(sent) + 1} ELSE rejected
          /\ skipped' = IF outcome = "unavailable"
                        THEN skipped \cup {magic} ELSE skipped
          /\ positions' = IF outcome = "done"
                          THEN positions \cup {<<magic, 0>>} ELSE positions
    /\ UNCHANGED <<cfg, plan, orders, anchorClosed, monVars, calc>>

StopsSent(s, magic) ==
    Cardinality({i \in DOMAIN s : s[i].kind = "stop" /\ s[i].magic = magic})

AfterStops(magic) == IF magic = MagicBuy THEN "stopsSell" ELSE "startMon"

\* place_stop_orders lines 163-167: the tick lookup before the loop
PlaceStopOrdersBegin(magic) ==
    /\ pc = (IF magic = MagicBuy THEN "stopsBuy" ELSE "stopsSell")
    /\ \E tick_ok \in BOOLEAN :
          pc' = IF ~tick_ok THEN "raised_tick"
                ELSE IF ZipLen(plan, magic) = 0 THEN AfterStops(magic)
                ELSE (IF magic = MagicBuy THEN "loopBuy" ELSE "loopSell")
    /\ UNCHANGED <<cfg, plan, sent, rejected, skipped, worldVars, monVars, calc>>

StopLoopNextBreak(magic, k, outcome) ==
    IF outcome = "rejected" \/ k >= ZipLen(plan, magic) THEN AfterStops(magic)
    ELSE (IF magic = MagicBuy THEN "loopBuy" ELSE "loopSell")

\* where place_stop_orders goes after its k-th order_send
StopLoopNext(magic, k, outcome) ==
    IF k >= ZipLen(plan, magic) THEN AfterStops(magic)
    ELSE (IF magic = MagicBuy THEN "loopBuy" ELSE "loopSell")

\* one iteration of the loop of place_stop_orders (lines 169-205)
PlaceStopOrder(magic) ==
    /\ pc = (IF magic = MagicBuy THEN "loopBuy" ELSE "loopSell")
    /\ LET k == StopsSent(sent, magic) + 1
       IN  \E outcome \in {"done", "rejected"} :
              /\ sent' = Append(sent, StopRequest(cfg, plan, magic, k))
              /\ rejected' = IF outcome = "rejected"
                             THEN rejected \cup {Len(sent) + 1} ELSE rejected
              /\ orders' = IF outcome = "done"
                           THEN orders \cup {<<magic, k>>} ELSE orders
              /\ pc' = StopLoopNext(magic, k, outcome)
    /\ UNCHANGED <<cfg, plan, skipped, positions, anchorClosed, monVars, calc>>

\* start_order_monitoring (lines 512-515) and the end of main()
StartMonitoring ==
    /\ pc = "startMon"
    /\ pc' = "done"
    /\ monPc' = "positions"
    /\ UNCHANGED <<cfg, plan, sent, rejected, skipped, worldVars, posSnap,
                   ordSnap, attempted, refused, prevView, calc>>

MainEnded == pc \in {"done", "cancelled", "raised_plan", "raised_tick"}

\* main() has returned or raised: the interpreter exits and takes the
\* daemon thread (line 513) with it
ProcessExit ==
    /\ MainEnded
    /\ monPc # "exited"
    /\ monPc' = "exited"
    /\ posSnap' = NoSnap
    /\ ordSnap' = NoSnap
    /\ attempted' = {}
    /\ refused' = {}
    /\ prevView' = NoView
    /\ UNCHANGED <<mainVars, worldVars, calc>>

----------------------------------------------------------------------------
(* The terminal: what the market and the trader do to the order book.      *)

\* a pending stop order of a ladder triggers and becomes a position
RungFills ==
    /\ \E o \in orders :
          /\ Magic(o) \in Ladders
          /\ orders' = orders \ {o}
          /\ positions' = positions \cup {o}
    /\ UNCHANGED <<mainVars, anchorClosed, monVars, calc>>

\* a position is closed: stop loss, take profit, or by hand
PositionCloses ==
    /\ \E p \in positions :
          /\ positions' = positions \ {p}
          /\ anchorClosed' = IF p[2] = 0 THEN anchorClosed \cup {Magic(p)}
                             ELSE anchorClosed
    /\ UNCHANGED <<mainVars, orders, monVars, calc>>

----------------------------------------------------------------------------
(* The monitor thread: monitor_orders inside start_order_monitoring.       *)

\* a cancel_stop_orders that selects every order of the snapshot
SelectedAny(snap, magic) == snap

\* orders of a snapshot that cancel_stop_orders(pending_orders, magic) selects
Selected(snap, magic) == {o \in snap : Magic(o) = magic}

\* the ladders the two tests of lines 499 and 504 find without a position
AbsentBuyOnly(active) == {MagicBuy} \ active
Absent(active) == {m \in {MagicBuy, MagicSell} : m \notin active}

\* orders this poll still has to send a cancel request for, for one ladder
Todo(magic) ==
    IF magic \in Absent(posSnap.v)
    THEN Selected(ordSnap.v, magic) \ attempted ELSE {}

\* the monitor's position once the orders of `snap` not in `done` are left
MonNext(active, snap, done) ==
    IF (IF MagicBuy \in Absent(active)
        THEN Selected(snap, MagicBuy) \ done ELSE {}) # {} THEN "cancelBuy"
    ELSE IF (IF MagicSell \in Absent(active)
             THEN Selected(snap, MagicSell) \ done ELSE {}) # {} THEN "cancelSell"
    ELSE "sleep"

\* positions_get (line 488); None when the terminal fails
MonFetchPositions ==
    /\ monPc = "positions"
    /\ \E ok \in BOOLEAN :
          posSnap' = IF ok THEN [ok |-> TRUE, v |-> {Magic(p) : p \in positions}]
                     ELSE NoSnap
    /\ monPc' = "orders"
    /\ UNCHANGED <<mainVars, worldVars, ordSnap, attempted, refused, prevView, calc>>

\* lines 491-507: where the loop goes once both fetches have returned
MonAfterFetch(pos, ord) ==
    IF pos.ok /\ ord.ok THEN MonNext(pos.v, ord.v, {}) ELSE "stopped"

\* orders_get (line 489), the None test and the two membership tests
MonFetchOrders ==
    /\ monPc = "orders"
    /\ \E ok \in BOOLEAN :
          LET snap == IF ok THEN [ok |-> TRUE, v |-> orders] ELSE NoSnap
              next == MonAfterFetch(posSnap, snap)
          IN  /\ monPc' = next
              /\ ordSnap' = IF next = "stopped" THEN NoSnap ELSE snap
              /\ posSnap' = IF next = "stopped" THEN NoSnap ELSE posSnap
              /\ prevView' = IF next = "stopped" THEN NoView ELSE prevView
    /\ UNCHANGED <<mainVars, worldVars, attempted, refused, calc>>

MonAfterCancelBreak(o, outcome) ==
    IF outcome = "rejected" THEN "sleep"
    ELSE MonNext(posSnap.v, ordSnap.v, attempted \cup {o})

\* where the monitor goes after the cancel request for o returned
MonAfterCancel(o, outcome) == MonNext(posSnap.v, ordSnap.v, attempted \cup {o})

\* one iteration of cancel_stop_orders that matches the magic number
\* (lines 454-471); the terminal refuses a cancel of an order that is gone
MonCancel(magic) ==
    /\ monPc = (IF magic = MagicBuy THEN "cancelBuy" ELSE "cancelSell")
    /\ \E o \in Todo(magic) :
       \E outcome \in {"done", "rejected"} :
          /\ outcome = "done" => o \in orders
          /\ attempted' = attempted \cup {o}
          /\ refused' = IF outcome = "rejected" THEN refused \cup {o} ELSE refused
          /\ orders' = IF outcome = "done" THEN orders \ {o} ELSE orders
          /\ monPc' = MonAfterCancel(o, outcome)
    /\ UNCHANGED <<mainVars, positions, anchorClosed, posSnap, ordSnap, prevView, calc>>

\* what one completed poll showed of a ladder
View(magic, active, snap) ==
    IF magic \in active THEN "ACTIVE"
    ELSE IF Selected(snap, magic) # {} THEN "ANCHOR_LOST"
    ELSE "RETIRED"

\* time.sleep (line 510) and the return to the top of the loop
MonSleep ==
    /\ monPc = "sleep"
    /\ monPc' = "positions"
    /\ prevView' = [l \in Ladders |-> View(l, posSnap.v, ordSnap.v)]
    /\ posSnap' = NoSnap
    /\ ordSnap' = NoSnap
    /\ attempted' = {}
    /\ refused' = {}
    /\ UNCHANGED <<mainVars, worldVars, calc>>

MainStep ==
    \/ Plan
    \/ Confirm
    \/ \E m \in Ladders : PlaceMarketOrder(m)
    \/ \E m \in Ladders : PlaceStopOrdersBegin(m)
    \/ \E m \in Ladders : PlaceStopOrder(m)
    \/ StartMonitoring

MonitorStep ==
    \/ MonFetchPositions
    \/ MonFetchOrders
    \/ \E m \in Ladders : MonCancel(m)
    \/ MonSleep

Next ==
    \/ MainStep
    \/ MonitorStep
    \/ RungFills
    \/ PositionCloses
    \/ ProcessExit

Spec == Init /\ [][Next]_vars

\* the scheduler runs the monitor thread whenever it can step
FairSpec == Spec /\ WF_vars(MonitorStep)

----------------------------------------------------------------------------
(* main() alone, from planning to the start of the monitor thread, on      *)
(* configurations whose three levels all pass validation in both           *)
(* directions; the terminal only answers main()'s requests.                *)

ExecConfigs ==
    {[BaseConfig EXCEPT !.stops_level = I(100)],
     [BaseConfig EXCEPT !.stops_level = I(0), !.account_size = I(1000)]}

InitExec ==
    /\ cfg \in ExecConfigs
    /\ pc = "start"
    /\ plan = [err |-> "unset"]
    /\ sent = <<>>
    /\ rejected = {}
    /\ skipped = {}
    /\ positions = {}
    /\ orders = {<<OtherMagic, 1>>}
    /\ anchorClosed = {}
    /\ monPc = "off"
    /\ posSnap = NoSnap
    /\ ordSnap = NoSnap
    /\ attempted = {}
    /\ refused = {}
    /\ prevView = NoView
    /\ calc = NoCalc

NextExec ==
    \/ Plan
    \/ Confirm
    \/ \E m \in Ladders : PlaceMarketOrder(m)
    \/ \E m \in Ladders : PlaceStopOrdersBegin(m)
    \/ \E m \in Ladders : PlaceStopOrder(m)
    \/ StartMonitoring

ExecSpec == InitExec /\ [][NextExec]_vars

----------------------------------------------------------------------------
(* Direct calls of the sizing functions, main() not being run.             *)

MaxOrders == 4

AccountSizes == {I(1000), I(10000)}
StopPercents == {I(1), I(2)}
StopDistances == {I(0), I(150), I(300), I(400)}
PipValues == {I(1), Q(1, 10)}
LotValues == {Q(33, 100), Q(1, 10), Q(1, 2)}
Goals == {I(150), I(300), I(500), I(1000)}
\* initial lot sizes on and off the 0.01 volume grid
SteppedLots == LotValues \cup {Q(167, 500)}
TpDistances == {I(-100), I(0), I(100), I(1500)}

\* symbol data for direct calls of calculate_stop_levels: the terminal's
\* point is 10^-digits, and bid and ask are multiples of point
StopsLevels == {I(0), I(4), I(500)}
PipCounts == {I(7), I(1500)}
PriceDigits == {2, 3}
LevelLists == {<<I(30), I(60), I(90)>>, <<I(30), I(60), I(100)>>}
StopLevelConfigs ==
    {[BaseConfig EXCEPT !.stops_level = sl, !.number_of_pips = np,
                        !.digits = d, !.point = Q(1, Pow10(d))] :
        sl \in StopsLevels, np \in PipCounts, d \in PriceDigits}

\* top-up lot sizes handed to calculate_be_levels, all positive
BELotLists ==
    {<<Q(24, 100), Q(84, 100), Q(502, 100)>>,
     <<Q(24, 100), Q(24, 100), Q(24, 100)>>,
     <<Q(1, 10), Q(2, 10), Q(3, 10)>>,
     <<Q(2, 10), Q(3, 10)>>,
     <<Q(5, 10), Q(2, 10)>>,
     <<Q(33, 100)>>}

InitCalc ==
    /\ cfg = BaseConfig
    /\ pc = "lib"
    /\ plan = [err |-> "unset"]
    /\ sent = <<>>
    /\ rejected = {}
    /\ skipped = {}
    /\ positions = {}
    /\ orders = {<<OtherMagic, 1>>}
    /\ anchorClosed = {}
    /\ monPc = "off"
    /\ posSnap = NoSnap
    /\ ordSnap = NoSnap
    /\ attempted = {}
    /\ refused = {}
    /\ prevView = NoView
    /\ calc = NoCalc

\* calculate_initial_lot_size(calculate_loss_in_dollars(...), ...)
CallInitialLotSize ==
    /\ calc = NoCalc
    /\ \E account_size \in AccountSizes, initial_stop_percent \in StopPercents,
          sl_distance \in StopDistances, pip_value \in PipValues :
          LET loss == calculate_loss_in_dollars(initial_stop_percent, account_size)
          IN  calc' = [fn |-> "calculate_initial_lot_size",
                       loss |-> loss,
                       sl_distance |-> sl_distance,
                       pip_value |-> pip_value,
                       err |-> IF RIsZero(RMul(sl_distance, pip_value))
                               THEN "ZeroDivisionError" ELSE "none",
                       out |-> IF RIsZero(RMul(sl_distance, pip_value)) THEN I(0)
                               ELSE calculate_initial_lot_size(loss, sl_distance,
                                                               pip_value)]
    /\ UNCHANGED <<mainVars, worldVars, monVars>>

CallSteppedExact ==
    /\ calc = NoCalc
    /\ \E initial_lot_size \in LotValues, total_goal \in Goals,
          tp_distance \in TpDistances, pip_value \in PipValues,
          num_orders \in 2..MaxOrders :
          LET r == calculate_stepped_lot_sizes_exact(
                       initial_lot_size, total_goal, tp_distance, pip_value,
                       num_orders)
          IN  calc' = [fn |-> "calculate_stepped_lot_sizes_exact",
                       initial_lot_size |-> initial_lot_size,
                       total_goal |-> total_goal,
                       tp_distance |-> tp_distance,
                       pip_value |-> pip_value,
                       num_orders |-> num_orders,
                       err |-> r.err,
                       out |-> r.lots]
    /\ UNCHANGED <<mainVars, worldVars, monVars>>

CallStepped ==
    /\ calc = NoCalc
    /\ \E initial_lot_size \in SteppedLots, total_goal \in Goals,
          tp_distance \in TpDistances, pip_value \in PipValues,
          num_orders \in 2..MaxOrders :
          LET r == calculate_stepped_lot_sizes(
                       initial_lot_size, total_goal, tp_distance, pip_value,
                       num_orders)
          IN  calc' = [fn |-> "calculate_stepped_lot_sizes",
                       initial_lot_size |-> initial_lot_size,
                       total_goal |-> total_goal,
                       tp_distance |-> tp_distance,
                       pip_value |-> pip_value,
                       num_orders |-> num_orders,
                       err |-> r.err,
                       out |-> r.lots]
    /\ UNCHANGED <<mainVars, worldVars, monVars>>

CallStopLevels ==
    /\ calc = NoCalc
    /\ \E c \in StopLevelConfigs, action \in {"BUY", "SELL"},
          top_up_levels \in LevelLists :
          calc' = [fn |-> "calculate_stop_levels",
                   c |-> c,
                   action |-> action,
                   top_up_levels |-> top_up_levels,
                   err |-> "none",
                   out |-> calculate_stop_levels(c, action, top_up_levels)]
    /\ UNCHANGED <<mainVars, worldVars, monVars>>

CallBELevels ==
    /\ calc = NoCalc
    /\ \E initial_lot_size \in LotValues, lot_sizes \in BELotLists,
          tp_distance \in TpDistances, pip_value \in PipValues :
          LET r == calculate_be_levels(initial_lot_size, lot_sizes, tp_distance,
                                       pip_value)
          IN  calc' = [fn |-> "calculate_be_levels",
                       initial_lot_size |-> initial_lot_size,
                       lot_sizes |-> lot_sizes,
                       tp_distance |-> tp_distance,
                       pip_value |-> pip_value,
                       err |-> r.err,
                       out |-> r.levels]
    /\ UNCHANGED <<mainVars, worldVars, monVars>>

NextCalc ==
    \/ CallInitialLotSize
    \/ CallSteppedExact
    \/ CallStepped
    \/ CallStopLevels
    \/ CallBELevels

CalcSpec == InitCalc /\ [][NextCalc]_vars

----------------------------------------------------------------------------
(* Claims.                                                                 *)

RungIds == {<<m, k>> : m \in Ladders, k \in 1..3}
PollDone == monPc = "sleep"
InPoll == monPc \in {"cancelBuy", "cancelSell", "sleep"}

\* a pending rung whose ladder's market position was open and has been
\* closed, and for which this poll has sent no cancel request
Orphan(o) ==
    /\ o \in orders
    /\ Magic(o) \in anchorClosed
    /\ o \notin attempted

\* C1 (ladder consistency I3): whenever polls keep completing and no cancel
\* of a still-pending order is refused, the pending rungs of a ladder whose
\* market position has been closed do not stay live for ever without a
\* cancel request: again and again no such rung is left, also when other
\* rungs of the ladder have become positions with the ladder's identifier.
C1_LadderConsistency ==
    ([]<>PollDone /\ [](refused \cap orders = {}))
        => []<>(\A o \in RungIds : ~Orphan(o))

\* C2 (bounded response): when a poll has completed that found a ladder's
\* identifier absent from the positions while the poll before it had found
\* it present, a cancel request has been sent for every order of that ladder
\* in the poll's pending-order snapshot, before the next poll begins.
C2_BoundedResponse ==
    PollDone =>
        \A l \in Ladders :
            (prevView[l] = "ACTIVE" /\ l \notin posSnap.v)
                => Selected(ordSnap.v, l) \subseteq attempted

C2_Witness ==
    /\ PollDone
    /\ \E l \in Ladders :
          /\ prevView[l] = "ACTIVE"
          /\ l \notin posSnap.v
          /\ Cardinality(Selected(ordSnap.v, l)) >= 2
          /\ Selected(ordSnap.v, l) \subseteq attempted

\* C3 (the monitor keeps polling): once started, the poll loop is never
\* left, whatever the terminal answered; only the end of the process ends it.
C3_MonitorKeepsPolling == monPc # "stopped"

\* C4 (independent cancellations): when a poll in which some cancel request
\* was refused has completed, a cancel request has nevertheless been sent for
\* every order in the snapshot of every ladder whose identifier the poll
\* found absent from the positions.
C4_IndependentCancels ==
    (PollDone /\ refused # {}) =>
        \A l \in Ladders :
            l \notin posSnap.v => Selected(ordSnap.v, l) \subseteq attempted

C4_Witness ==
    /\ PollDone
    /\ \E o \in refused : Magic(o) = MagicBuy
    /\ Cardinality(Selected(attempted, MagicBuy)) >= 2
    /\ Selected(attempted, MagicSell) # {}
    /\ Selected(ordSnap.v, MagicBuy) \cup Selected(ordSnap.v, MagicSell)
           \subseteq attempted

\* C5 (one-way lifecycle): what successive polls show of a ladder only moves
\* ACTIVE -> ANCHOR_LOST -> RETIRED: a ladder seen ANCHOR_LOST is not seen
\* ACTIVE by the next poll, and a ladder seen RETIRED (identifier absent,
\* no pending order) is seen RETIRED by the next poll, which sends no cancel
\* request for it.
C5_OneWayLifecycle ==
    InPoll =>
        \A l \in Ladders :
            /\ prevView[l] = "ANCHOR_LOST"
                   => View(l, posSnap.v, ordSnap.v) # "ACTIVE"
            /\ prevView[l] = "RETIRED"
                   => /\ View(l, posSnap.v, ordSnap.v) = "RETIRED"
                      /\ Selected(attempted, l) = {}

\* C6 (partial-failure tolerance): once both place_stop_orders calls have
\* returned, every order of the plan has been sent whatever the results of
\* the others were: each market order (unless its own symbol lookup failed)
\* and one pending order per validated level of each direction; and when
\* main() is done the monitor has been started.
C6_PartialFailureTolerant ==
    /\ pc \in {"startMon", "done"} =>
          \A m \in Ladders :
             /\ m \in skipped
                \/ \E i \in DOMAIN sent : sent[i].kind = "market" /\ sent[i].magic = m
             /\ StopsSent(sent, m) = Len(StopLevels(plan, m))
    /\ pc = "done" => monPc # "off"

C6_Witness ==
    /\ pc = "done"
    /\ monPc \notin {"off", "exited"}
    /\ \E i \in rejected : sent[i].kind = "market"
    /\ \E i \in rejected : sent[i].kind = "stop" /\ i < Len(sent)
    /\ \A m \in Ladders : StopsSent(sent, m) = Len(StopLevels(plan, m))
    /\ \E m \in Ladders : StopsSent(sent, m) >= 2

\* the pip gain of rung i as the Ladder Allocator defines it
PipGain(c, i) ==
    RSub(RMul(c.number_of_pips, RSub(I(1), RDiv(c.levels[i], I(100)))),
         get_spread_in_pips(c))

Degenerate(c) ==
    \/ RLe(c.initial_stop_level, I(0))
    \/ RLe(get_pip_value(c), I(0))
    \/ \E i \in 1..Len(c.levels) : RLe(PipGain(c, i), I(0))

\* C7 (fail-fast planning): with a non-positive initial stop distance, a
\* non-positive pip value or a rung whose pip gain is not positive, main()
\* never gets past planning: it ends in an error, sends no order and does
\* not start the monitor.
C7_PlanningFailFast ==
    Degenerate(cfg) =>
        /\ pc \in {"start", "raised_plan"}
        /\ sent = <<>>
        /\ monPc \in {"off", "exited"}

\* candidate indexes of the levels calculate_stop_levels keeps, in order
RECURSIVE Survivors(_, _, _)
Survivors(c, action, i) ==
    IF i > Len(c.levels) THEN <<>>
    ELSE (IF LevelValid(c, action, RawLevel(c, action, c.levels[i]))
          THEN <<i>> ELSE <<>>) \o Survivors(c, action, i + 1)

\* C8 (dropped rungs): the k-th pending order sent for a direction is the
\* k-th surviving rung, sent at that rung's level with the lot size and the
\* break-even distance computed for that rung's own top-up percentage; and
\* no more orders are sent than rungs survive.
C8_SurvivorsKeepOwnSizing ==
    \A i \in DOMAIN sent :
        sent[i].kind = "stop" =>
            LET m    == sent[i].magic
                surv == Survivors(cfg, ActionOf(m), 1)
                j    == surv[sent[i].idx]
                cur  == CurrentPrice(cfg, ActionOf(m))
                off  == RMul(plan.be_levels[j], cfg.point)
            IN  /\ sent[i].idx <= Len(surv)
                /\ sent[i].price =
                       Round(RawLevel(cfg, ActionOf(m), cfg.levels[j]), cfg.digits)
                /\ sent[i].volume = Round(plan.lot_sizes[j + 1], 2)
                /\ sent[i].sl = IF m = MagicBuy THEN RSub(cur, off) ELSE RAdd(cur, off)

\* C9 (exact-residual convergence): for a goal above the initial order's
\* contribution, positive distance and pip value and at least one top-up
\* rung, the lot sizes calculate_stepped_lot_sizes_exact returns contribute
\* the goal to within one cent.
C9_ExactWithinOneCent ==
    (/\ calc.fn = "calculate_stepped_lot_sizes_exact"
     /\ RLt(I(0), calc.tp_distance)
     /\ RLt(I(0), calc.pip_value)
     /\ calc.num_orders >= 2
     /\ RLt(RMul(RMul(calc.initial_lot_size, calc.tp_distance), calc.pip_value),
            calc.total_goal))
        => /\ calc.err = "none"
           /\ RLe(RAbs(RSub(verify_total_contribution(calc.out, calc.tp_distance,
                                                      calc.pip_value),
                            calc.total_goal)),
                  Q(1, 100))

\* C10 (risk bound I2): for a positive stop distance and pip value, the lot
\* size Risk Sizing returns loses at most the configured loss at the stop.
C10_RiskBound ==
    (/\ calc.fn = "calculate_initial_lot_size"
     /\ RLt(I(0), calc.sl_distance)
     /\ RLt(I(0), calc.pip_value))
        => RLe(RMul(RMul(calc.out, calc.sl_distance), calc.pip_value), calc.loss)


\* C11: for tp_distance > 0 and pip_value > 0 the list returned by
\* calculate_stepped_lot_sizes never decreases from one index to the next,
\* whether or not initial_lot_size is a multiple of 0.01
C11_SteppedNonDecreasing ==
    (/\ calc.fn = "calculate_stepped_lot_sizes"
     /\ RLt(I(0), calc.tp_distance)
     /\ RLt(I(0), calc.pip_value))
    => /\ calc.err = "none"
       /\ \A i \in 1..(Len(calc.out) - 1) : RLe(calc.out[i], calc.out[i + 1])

\* C12: every level calculate_stop_levels returns, as returned (rounded to
\* the instrument's digits), lies at least trade_stops_level * point away
\* from the reference price (ask for BUY, bid for SELL)
C12_ReturnedLevelsKeepMinDistance ==
    calc.fn = "calculate_stop_levels"
    => \A i \in 1..Len(calc.out) :
           RLe(RMul(calc.c.stops_level, calc.c.point),
               RAbs(RSub(calc.out[i], CurrentPrice(calc.c, calc.action))))

\* a call that drops a level and keeps one whose rounding moved it towards
\* the reference price, down to exactly the minimum distance
C12_Witness ==
    /\ calc.fn = "calculate_stop_levels"
    /\ 0 < Len(calc.out)
    /\ Len(calc.out) < Len(calc.top_up_levels)
    /\ \E i \in 1..Len(calc.top_up_levels) :
           LET raw == RawLevel(calc.c, calc.action, calc.top_up_levels[i])
               cur == CurrentPrice(calc.c, calc.action)
               kept == Round(raw, calc.c.digits)
           IN  /\ LevelValid(calc.c, calc.action, raw)
               /\ RLt(RAbs(RSub(kept, cur)), RAbs(RSub(raw, cur)))
               /\ RAbs(RSub(kept, cur)) = RMul(calc.c.stops_level, calc.c.point)

NonDecreasing(seq) == \A i \in 1..(Len(seq) - 1) : RLe(seq[i], seq[i + 1])

\* a call of calculate_be_levels on positive inputs and non-decreasing lots
BECase ==
    /\ calc.fn = "calculate_be_levels"
    /\ RLt(I(0), calc.initial_lot_size)
    /\ RLt(I(0), calc.tp_distance)
    /\ RLt(I(0), calc.pip_value)
    /\ \A i \in 1..Len(calc.lot_sizes) : RLt(I(0), calc.lot_sizes[i])
    /\ NonDecreasing(calc.lot_sizes)

\* no lot size grows faster than its rung index: i * lot[i+1] <= (i+1) * lot[i]
GrowthBounded(lots) ==
    \A i \in 1..(Len(lots) - 1) :
        RLe(RMul(I(i), lots[i + 1]), RMul(I(i + 1), lots[i]))

\* C13 as stated: for positive inputs and every non-decreasing sequence of
\* positive top-up lot sizes the returned break-even levels never decrease
C13_BELevelsNonDecreasing ==
    BECase => (calc.err = "none" /\ NonDecreasing(calc.out))

\* C13 amended: the break-even levels never decrease when, in addition, no
\* lot size grows faster than its rung index
C13_BELevelsNonDecreasingBounded ==
    (BECase /\ GrowthBounded(calc.lot_sizes))
    => (calc.err = "none" /\ NonDecreasing(calc.out))

\* a call with lots that strictly increase within the growth bound and
\* break-even levels that strictly increase
C13_Witness ==
    /\ BECase
    /\ GrowthBounded(calc.lot_sizes)
    /\ \E i \in 1..(Len(calc.lot_sizes) - 1) :
           /\ RLt(calc.lot_sizes[i], calc.lot_sizes[i + 1])
           /\ RLt(calc.out[i], calc.out[i + 1])

Solvers == {"calculate_stepped_lot_sizes", "calculate_stepped_lot_sizes_exact"}

\* C14: both solvers return an error and no lot sizes when total_goal is at
\* most the initial order's contribution (initial_lot_size * tp_distance *
\* pip_value) or when tp_distance is zero or negative
C14_SolversRejectBadGoalOrDistance ==
    (/\ calc.fn \in Solvers
     /\ \/ RLe(calc.total_goal,
                RMul(RMul(calc.initial_lot_size, calc.tp_distance), calc.pip_value))
        \/ RLe(calc.tp_distance, I(0)))
    => (calc.err # "none" /\ calc.out = <<>>)

\* the requests of one kind main() has sent for a ladder
SentOf(kind, magic) ==
    {i \in DOMAIN sent : sent[i].kind = kind /\ sent[i].magic = magic}

\* dollars the sent orders of a ladder gain at the take-profit: each sent
\* volume times the pip gain of the level its request was built for
SubmittedTotal(magic) ==
    LET idxs == SentOf("market", magic) \cup SentOf("stop", magic)
        term(i) == RMul(RMul(sent[i].volume, plan.pip_gains[sent[i].idx]),
                        plan.pip_value)
        SumOver[S \in SUBSET idxs] ==
            IF S = {} THEN I(0)
            ELSE LET i == CHOOSE j \in S : TRUE
                 IN  RAdd(term(i), SumOver[S \ {i}])
    IN  SumOver[idxs]

\* main() has sent the market order and all three stop orders of both
\* ladders, every level having passed validation
AllSubmitted ==
    /\ plan.err = "none"
    /\ ~Degenerate(cfg)
    /\ \A m \in Ladders :
           /\ Len(StopLevels(plan, m)) = Len(cfg.levels)
           /\ Cardinality(SentOf("market", m)) = 1
           /\ Cardinality(SentOf("stop", m)) = Len(cfg.levels)

\* C15: on a valid configuration whose three levels all pass validation,
\* the initial order's gain plus the gains of the submitted stop orders, at
\* the volumes sent (rounded to two decimals), is within one cent of
\* account_size * target_gain_percent / 100, for each ladder
C15_SubmittedTotalWithinOneCent ==
    AllSubmitted =>
        \A m \in Ladders :
            RLe(RAbs(RSub(SubmittedTotal(m), plan.total_gain)), Q(1, 100))

\* C16: every cancel request a poll has sent is for an order of that poll's
\* pending-order snapshot whose magic number is one of the two ladders' and
\* is missing from that poll's position snapshot; no order of a ladder the
\* poll saw a position of, and no order of another magic number, is targeted
C16_CancelsOnlyAbsentLadders ==
    \A o \in attempted :
        /\ posSnap.ok /\ ordSnap.ok
        /\ o \in ordSnap.v
        /\ Magic(o) \in Ladders
        /\ Magic(o) \notin posSnap.v

\* a completed poll that saw one ladder with a position and pending orders,
\* the other without a position and with pending orders, and a foreign
\* order: only the second ladder's orders had a cancel request
C16_Witness ==
    /\ PollDone
    /\ <<OtherMagic, 1>> \in ordSnap.v \ attempted
    /\ \E m \in Ladders : \E n \in Ladders \ {m} :
           /\ m \in posSnap.v
           /\ {o \in ordSnap.v : Magic(o) = m} # {}
           /\ {o \in ordSnap.v : Magic(o) = m} \cap attempted = {}
           /\ n \notin posSnap.v
           /\ {o \in ordSnap.v : Magic(o) = n} # {}
           /\ {o \in ordSnap.v : Magic(o) = n} \subseteq attempted

MonitorRunning ==
    monPc \in {"positions", "orders", "cancelBuy", "cancelSell", "sleep", "stopped"}

\* the market order of a ladder was sent and refused by the terminal
MarketRejected(magic) ==
    \E i \in rejected : sent[i].kind = "market" /\ sent[i].magic = magic

\* some stop order of a ladder was sent and accepted by the terminal
RungAccepted(magic) ==
    \E i \in DOMAIN sent \ rejected :
        sent[i].kind = "stop" /\ sent[i].magic = magic

\* the first poll of the monitor, both fetches done, has sent its cancels
FirstPollDone == PollDone /\ prevView = NoView

\* C17, first part: the monitor polls, and sends cancel requests, only
\* after main() has got both market submissions and both stop batches back
C17_MonitorAfterSubmission ==
    (MonitorRunning \/ attempted # {}) => pc = "done"

\* C17: the monitor's first poll comes after all submissions; and when a
\* ladder's market order was rejected while some of its rungs were
\* accepted, the first poll (its fetches succeeding) finds that ladder's
\* magic number without a position and sends a cancel request for each of
\* the ladder's pending rungs
C17_FirstPollCleansRejectedLadder ==
    /\ C17_MonitorAfterSubmission
    /\ FirstPollDone =>
           \A m \in Ladders :
               (MarketRejected(m) /\ RungAccepted(m))
               => /\ m \notin posSnap.v
                  /\ {o \in ordSnap.v : Magic(o) = m} \subseteq attempted
====
